---- MODULE Spec2Model ----
(***************************************************************************)
(* ros_license_toolkit: the license reconciliation engine.                 *)
(*                                                                         *)
(* A run (main) processes packages one after the other.  For each package  *)
(* process_one_pkg runs six checks in a fixed order on one Package object, *)
(* whose declaration set (license_tags) and scan results are computed      *)
(* lazily on first access and memoized.                                    *)
(*                                                                         *)
(* Conventions of the model                                                *)
(*  - a path is the sequence of its components ("../LICENSE" is            *)
(*    <<"..", "LICENSE">>); the absent path (None) is <<>>;                *)
(*  - a license expression is the sequence of its " AND "-separated        *)
(*    conjuncts; the empty string is <<>> and None is NoneExpr;            *)
(*  - a dict is a sequence of entries in insertion order where the order   *)
(*    matters (license_tags, found_license_texts) and a function otherwise.*)
(***************************************************************************)
EXTENDS Integers, Sequences, FiniteSets, TLC

VARIABLES
    world,      \* the package on disk: manifest, files, scanner answers
    pkg,        \* the Package object (lazily computed, memoized fields)
    chk,        \* the six Check objects of process_one_pkg: status, reason
    rec,        \* the records (dicts) the checks collect
    pc,         \* the check process_one_pkg runs next, or where main is
    results,    \* the package statuses so far (results_per_package)
    uncaught,   \* the exception that ended the run, NoExc while it runs
    returned,   \* what main returned and printed last, NotReturned before
    calls,      \* what the accesses a caller made to the Package gave
    cache       \* the files of ~/.cache/ros_license_toolkit

vars == <<world, pkg, chk, rec, pc, results, uncaught, returned, calls,
         cache>>

----------------------------------------------------------------------------
\* Bounds of the model
MaxTags == 2
MaxPkgs == 2

\* class Status(IntEnum)
SUCCESS == 0
WARNING == 1
FAILURE == 2

\* os.EX_OK, os.EX_DATAERR
EX_OK      == 0
EX_DATAERR == 65

REQUIRED_PERCENTAGE_OF_LICENSE_TEXT == 90
SIMILARITY_THRESHOLD == 90

Max2(a, b) == IF a >= b THEN a ELSE b

RECURSIVE SeqMax(_)
SeqMax(s) == IF Len(s) = 1 THEN s[1] ELSE Max2(s[1], SeqMax(Tail(s)))

SetMax(S) == CHOOSE x \in S : \A y \in S : x >= y

Range(s) == {s[i] : i \in 1..Len(s)}

----------------------------------------------------------------------------
\* Vocabulary
TagNames == {"MIT", "BSD"}                       \* texts of <license> tags
SpdxList == {"MIT", "BSD-3-Clause", "Apache-2.0"} \* the cached SPDX list
NoneExpr == <<"None">>                            \* Python None as expression
NOFILE   == <<>>                                  \* Python None as path

is_license_name_in_spdx_list(license_name) == license_name \in SpdxList

\* truthiness of an Optional[str]
Truthy(e) == e # NoneExpr /\ e # <<>>

\* `expr == key` / `expr in dict` for a whole expression string and a tag id
ExprIsId(e, id) == e = <<id>>

----------------------------------------------------------------------------
\* Paths
PKG_ABS    == <<"repo", "pkg">>     \* package.abspath
REPO_ABS   == <<"repo">>            \* repo.abs_path
XML_P      == <<"package.xml">>
LICENSE_P  == <<"LICENSE">>
REPOLIC_P  == <<"..", "LICENSE">>
A_P        == <<"src", "a.cpp">>
B_P        == <<"src", "b.cpp">>
LICBSD_P   == <<"LICENSE.BSD">>

\* the order in which os.walk gives the package files where the model does
\* not vary it (top directory first)
PkgWalk == <<XML_P, LICENSE_P, A_P, B_P>>

\* names containing the marker "LICENSE" (or "COPYING" for the listing)
MarkedNames == {"LICENSE", "LICENSE.BSD"}

RECURSIVE NormFrom(_, _)
NormFrom(done, rest) ==
    IF rest = <<>> THEN done
    ELSE IF Head(rest) = ".."
         THEN NormFrom(IF done = <<>> THEN <<>>
                       ELSE SubSeq(done, 1, Len(done) - 1), Tail(rest))
    ELSE IF Head(rest) = "." THEN NormFrom(done, Tail(rest))
    ELSE NormFrom(Append(done, Head(rest)), Tail(rest))

\* os.path.abspath / normpath of an absolute component sequence
abspath(p) == NormFrom(<<>>, p)

RECURSIVE commonpath(_, _)
commonpath(a, b) ==
    IF a = <<>> \/ b = <<>> \/ Head(a) # Head(b) THEN <<>>
    ELSE <<Head(a)>> \o commonpath(Tail(a), Tail(b))

\* os.path.relpath(path, start), both absolute and normalized
relpath(path, start) ==
    LET c  == Len(commonpath(path, start))
        up == [i \in 1..(Len(start) - c) |-> ".."]
    IN  up \o SubSeq(path, c + 1, Len(path))

_get_path_relative_to_pkg(path) == relpath(path, PKG_ABS)

IsUnder(dir, path) == Len(path) > Len(dir) /\ SubSeq(path, 1, Len(dir)) = dir

\* a variant of the test below that takes every file
IsAnyFile(file) == TRUE

is_in_package(file) ==
    LET parent == abspath(PKG_ABS)
        child  == abspath(PKG_ABS \o file)
    IN  commonpath(parent, parent) = commonpath(parent, child)

----------------------------------------------------------------------------
\* Scanner answers (scancode get_licenses)
ScanText(id)   == [pct |-> 100, islt |-> TRUE,  expr |-> <<id>>]
ScanWeak       == [pct |-> 50,  islt |-> TRUE,  expr |-> <<"MIT">>]
ScanCode(expr) == [pct |-> 0,   islt |-> FALSE, expr |-> expr]

get_spdx_license_name(scan_results) ==
    IF scan_results.pct >= REQUIRED_PERCENTAGE_OF_LICENSE_TEXT
    THEN scan_results.expr ELSE NoneExpr

is_license_text_file(scan_results) == scan_results.islt

get_id_from_license_text(scan_results) == scan_results.expr

----------------------------------------------------------------------------
\* The world: one package on disk.
\*   manifest : the <license> tags of package.xml, in document order; each is
\*              [id, file, src]: its text, its file attribute (NOFILE when
\*              absent) and its source-files attribute split on " " (<<>> when
\*              absent)
\*   xml      : "ok" | "v4" | "badformat" | "missing" | "malformed"
\*   files    : function from the absolute paths of the files on disk to the
\*              scanner's answer for the file
\*   repo     : the absolute path of the git repository the package is in
\*   scanignore : the lines of the file .scanignore of the package
\*   walk     : the order in which os.walk enumerates the package files

TagFiles == {NOFILE, LICENSE_P, REPOLIC_P}
TagGlobs == {<<>>, <<A_P>>}

TagTriples == [id : TagNames, file : TagFiles, src : TagGlobs]

Manifests == UNION {[1..n -> TagTriples] : n \in 0..MaxTags}

PkgLicenseScans  == {ScanText("MIT"), ScanText("BSD-3-Clause"), ScanWeak}
RepoLicenseScans == {ScanText("MIT"), ScanWeak}
CodeExprs        == {NoneExpr, <<"BSD-3-Clause">>, <<"MIT", "BSD-3-Clause">>}

\* zero or one answer: the file is absent or present with that answer
Opt(S) == {<<>>} \cup {<<x>> : x \in S}

DiskOf(xml, pl, rl, a) ==
    LET present ==
            (IF xml = "missing" THEN {} ELSE {PKG_ABS \o XML_P})
            \cup (IF pl = <<>> THEN {} ELSE {PKG_ABS \o LICENSE_P})
            \cup (IF rl = <<>> THEN {} ELSE {REPO_ABS \o LICENSE_P})
            \cup {PKG_ABS \o A_P, PKG_ABS \o B_P}
    IN  [f \in present |->
            IF f = PKG_ABS \o XML_P THEN ScanCode(NoneExpr)
            ELSE IF f = PKG_ABS \o LICENSE_P THEN pl[1]
            ELSE IF f = REPO_ABS \o LICENSE_P THEN rl[1]
            ELSE IF f = PKG_ABS \o A_P THEN ScanCode(a)
            ELSE ScanCode(<<"MIT">>)]

\* a few packages, among them packages whose package.xml is of format 4, of
\* no valid format, missing or malformed: the packages main takes after the
\* first one
LaterWorlds ==
    {[manifest |-> m, xml |-> x, repo |-> REPO_ABS,
      scanignore |-> <<>>, walk |-> PkgWalk,
      files |-> DiskOf(x, <<ScanText("MIT")>>, <<>>, NoneExpr)] :
        m \in {<<>>, <<[id |-> "MIT", file |-> LICENSE_P, src |-> <<>>]>>,
               <<[id |-> "BSD", file |-> LICENSE_P, src |-> <<>>]>>},
        x \in {"ok", "v4", "badformat", "missing", "malformed"}}

\* every manifest with a well-formed package.xml on every disk, and the
\* packages above
Worlds ==
    {[manifest |-> m, xml |-> "ok", repo |-> REPO_ABS,
      scanignore |-> <<>>, walk |-> PkgWalk,
      files |-> DiskOf("ok", pl, rl, a)] :
        m \in Manifests, pl \in Opt(PkgLicenseScans),
        rl \in Opt(RepoLicenseScans), a \in CodeExprs}
    \cup LaterWorlds

\* os.path.exists(os.path.join(package.abspath, rel))
Exists(w, rel) == abspath(PKG_ABS \o rel) \in DOMAIN w.files

\* the files of the package directory, relative to it
PkgFiles(w) == {_get_path_relative_to_pkg(f) :
                   f \in {g \in DOMAIN w.files : IsUnder(PKG_ABS, g)}}

\* os.listdir(package.abspath)
ListDir(w) == {Head(f) : f \in PkgFiles(w)}

----------------------------------------------------------------------------
\* Glob resolution (license_tag._eval_glob).  "*" matches one component, "**"
\* any number of them; neither matches a hidden name.
Hidden(name) == name \in {".git", ".scanignore"}

RECURSIVE GlobMatch(_, _)
GlobMatch(pat, f) ==
    IF pat = <<>> THEN f = <<>>
    ELSE IF Head(pat) = "**"
         THEN \/ GlobMatch(Tail(pat), f)
              \/ f # <<>> /\ ~Hidden(Head(f)) /\ GlobMatch(pat, Tail(f))
    ELSE IF f = <<>> THEN FALSE
    ELSE IF Head(pat) = "*"
         THEN ~Hidden(Head(f)) /\ GlobMatch(Tail(pat), Tail(f))
    ELSE Head(pat) = Head(f) /\ GlobMatch(Tail(pat), Tail(f))

_eval_glob(glob_str, w) == {f \in PkgFiles(w) : GlobMatch(glob_str, f)}

----------------------------------------------------------------------------
\* Python dicts: sequences of entries [k, v] in insertion order
Keys(d)   == {d[i].k : i \in 1..Len(d)}
Get(d, k) == d[CHOOSE i \in 1..Len(d) : d[i].k = k].v
Put(d, k, v) ==
    IF k \in Keys(d)
    THEN [i \in 1..Len(d) |-> IF d[i].k = k THEN [k |-> k, v |-> v] ELSE d[i]]
    ELSE Append(d, [k |-> k, v |-> v])
Values(d) == [i \in 1..Len(d) |-> d[i].v]

\* d[k].append(x) after `if k not in d: d[k] = []`
AppendTo(d, k, x) ==
    IF k \in Keys(d) THEN Put(d, k, Append(Get(d, k), x)) ELSE Put(d, k, <<x>>)

----------------------------------------------------------------------------
\* Exceptions.  NoExc: the call returned.
\* An exception is the text Check.check would make of it.
NoExc == "none"
MoreThanOneLicenseWithoutSourceFilesTag ==
    "PackageException: There must be at most one license tag without source-files."
MoreThanOneLicenseWithoutLicenseTextFile ==
    "PackageException: There must be at most one license tag without a license text file."
PackageException == {MoreThanOneLicenseWithoutSourceFilesTag,
                     MoreThanOneLicenseWithoutLicenseTextFile}
AssertNoFileAttribute == "AssertionError: License tag must have file attribute."
AssertNoSourceFiles   == "AssertionError: License tag must have source-files attribute."
AssertNoManifest      == "AssertionError: Path package.xml does not exist."
AssertNoText          == "AssertionError: License tag must have text."
AssertionError == {AssertNoFileAttribute, AssertNoSourceFiles, AssertNoManifest,
                   AssertNoText}
\* exceptions of other classes
OtherErrors == {"FileNotFoundError", "ParseError", "XMLSyntaxError",
                "ConnectionError"}

----------------------------------------------------------------------------
\* common.IGNORED, the patterns as paths
IGNORED ==
    <<<<"CHANGELOG.rst">>, <<".scanignore">>, <<"package.xml">>,
      <<"setup.py">>, <<"setup.cfg">>, <<"CMakeLists.txt">>, <<".git", "*">>>>

\* a line of .scanignore is [text, comment]: the pattern it starts with
\* (<<>>: none) and whether a comment follows.  The loop over the lines of
\* common.get_ignored_content
RECURSIVE ScanIgnorePatterns(_)
ScanIgnorePatterns(lines) ==
    IF lines = <<>> THEN <<>>
    ELSE LET ignore_pattern == Head(lines).text
         IN  IF Len(ignore_pattern) > 0
             THEN <<ignore_pattern>> \o ScanIgnorePatterns(Tail(lines))
             ELSE ScanIgnorePatterns(Tail(lines))

\* a variant of the operation below in which the patterns of .scanignore
\* replace the built-in ones
ScanIgnoreReplacesIgnored(w) ==
    IF ScanIgnorePatterns(w.scanignore) # <<>>
    THEN ScanIgnorePatterns(w.scanignore) ELSE IGNORED

\* common.get_ignored_content
get_ignored_content(w) ==
    ScanIgnorePatterns(w.scanignore)
    \o SelectSeq(IGNORED,
                 LAMBDA pattern :
                    \A i \in 1..Len(ScanIgnorePatterns(w.scanignore)) :
                        ScanIgnorePatterns(w.scanignore)[i] # pattern)

\* fnmatch of a relative path and a pattern; "*" as the last part of a
\* pattern matches the rest of the path, separators included
FnMatch(f, pattern) ==
    IF pattern[Len(pattern)] = "*"
    THEN /\ Len(f) >= Len(pattern)
         /\ SubSeq(f, 1, Len(pattern) - 1) = SubSeq(pattern, 1, Len(pattern) - 1)
    ELSE f = pattern

\* the file is removed from files_rel_to_pkg by the loop over the patterns in
\* Package._run_scan_and_save_results
Ignored(f, w) ==
    \E i \in 1..Len(get_ignored_content(w)) :
        FnMatch(f, get_ignored_content(w)[i])

\* Repo.__init__: the license text files directly in the repository root
RepoLicenseTextFiles(w) ==
    {f \in DOMAIN w.files :
        /\ Len(f) = Len(w.repo) + 1
        /\ IsUnder(w.repo, f)
        /\ is_license_text_file(w.files[f])}

RECURSIVE PutAll(_, _, _)
PutAll(d, S, w) ==
    IF S = {} THEN d
    ELSE LET f == CHOOSE x \in S : TRUE
         IN  PutAll(Put(d, _get_path_relative_to_pkg(f), w.files[f]),
                    S \ {f}, w)

\* Package: the object after __init__.  Besides its fields the model keeps
\*   scan_log    : the files the Package passed to get_licenses, in order
\*   allocs      : how many times it made the two dicts of scan results
\*   tags_allocs : how many times it made the dict of license tags
NewPackage ==
    [tags_set |-> FALSE, license_tags |-> <<>>,
     scanned |-> FALSE, found_files_w_licenses |-> <<>>,
     found_license_texts |-> <<>>,
     scan_log |-> <<>>, allocs |-> 0, tags_allocs |-> 0]

RECURSIVE WalkInto(_, _, _, _)
WalkInto(walk, w, texts, wanted) ==
    IF walk = <<>> THEN texts
    ELSE LET fname == Head(walk)
             scan_results == w.files[PKG_ABS \o fname]
             istext == Truthy(get_spdx_license_name(scan_results))
         IN  WalkInto(Tail(walk), w,
                      IF istext = wanted
                      THEN Put(texts, fname, scan_results) ELSE texts,
                      wanted)

\* the scan of Package._run_scan_and_save_results
ScanAndSave(p, w) ==
    LET Walked(f) == (PKG_ABS \o f) \in DOMAIN w.files /\ ~Ignored(f, w)
        walk == SelectSeq(w.walk, Walked)
    IN  [p EXCEPT
            !.scanned = TRUE,
            !.scan_log = @ \o walk,
            !.allocs = @ + 1,
            !.found_files_w_licenses = WalkInto(walk, w, <<>>, FALSE),
            !.found_license_texts =
                PutAll(WalkInto(walk, w, <<>>, TRUE),
                       RepoLicenseTextFiles(w), w)]

\* a variant of the operation below that scans on every call
RescanAlways(p, w) == ScanAndSave(p, w)

\* Package._run_scan_and_save_results
_run_scan_and_save_results(p, w) ==
    IF p.scanned THEN p ELSE ScanAndSave(p, w)

\* the properties Package.found_files_w_licenses and
\* Package.found_license_texts: the Package after the access, whose field of
\* that name is the value returned
found_files_w_licenses(p, w) ==
    IF p.scanned THEN p ELSE _run_scan_and_save_results(p, w)
found_license_texts(p, w) ==
    IF p.scanned THEN p ELSE _run_scan_and_save_results(p, w)

----------------------------------------------------------------------------
\* LicenseTag.__init__
LicenseTag(element, w, has_scan, scan) ==
    [id |-> element.id,
     id_from_license_text |->
        IF has_scan THEN get_id_from_license_text(scan) ELSE NoneExpr,
     license_text_file |-> element.file,
     has_source_files |-> element.src # <<>>,
     source_files |->
        UNION {_eval_glob(element.src[i], w) : i \in 1..Len(element.src)},
     source_files_str |-> IF element.src = <<>> THEN <<<<"**">>>> ELSE element.src]

has_license_text_file(tag) == tag.license_text_file # NOFILE
has_source_files(tag)      == tag.has_source_files

\* a variant of the operation below that takes every file of the package
TakeEveryFile(tag, others, w) ==
    [tag EXCEPT
        !.has_source_files = TRUE,
        !.source_files = _eval_glob(tag.source_files_str[1], w)]

\* LicenseTag.make_this_the_main_license; others are the other tags
make_this_the_main_license(tag, others, w) ==
    [tag EXCEPT
        !.has_source_files = TRUE,
        !.source_files =
            _eval_glob(tag.source_files_str[1], w)
            \ UNION {others[i].source_files : i \in 1..Len(others)}]

\* the loop of Package.license_tags over the <license> elements
RECURSIVE ParseTags(_, _, _)
ParseTags(elems, texts, w) ==
    IF elems = <<>> THEN <<>>
    ELSE LET e    == elems[Len(elems)]
             rest == ParseTags(SubSeq(elems, 1, Len(elems) - 1), texts, w)
             has  == e.file # NOFILE /\ e.file \in Keys(texts)
             tag  == LicenseTag(e, w, has,
                                IF has THEN Get(texts, e.file)
                                ELSE ScanCode(NoneExpr))
         IN  Put(rest, tag.id, tag)

MinOrZero(S) == IF S = {} THEN 0 ELSE CHOOSE i \in S : \A j \in S : i <= j

\* the positions of the tags without source-files / without a text file
NoSourceFiles(tags) == {i \in 1..Len(tags) : ~has_source_files(tags[i].v)}
NoTextFile(tags)    == {i \in 1..Len(tags) : ~has_license_text_file(tags[i].v)}

\* Package._check_single_license_tag_without_source_files, when it does not
\* raise: the first tag without source-files becomes the main license
MainLicenseStep(tags, w) ==
    LET i == MinOrZero(NoSourceFiles(tags))
    IN  IF i = 0 THEN tags
        ELSE [tags EXCEPT ![i].v =
                make_this_the_main_license(
                    tags[i].v,
                    Values(SelectSeq(tags, LAMBDA e : e.k # tags[i].k)), w)]

\* the text file Package._check_single_license_tag_without_file_attribute
\* infers for the tag without a file attribute (NOFILE: none)
InferredTextFile(license_texts, w) ==
    LET Marked(e) == \E c \in Range(e.k) : c \in MarkedNames
        byscan ==
            IF Len(license_texts) = 1 THEN license_texts[1].k
            ELSE IF \E i \in 1..Len(license_texts) : Marked(license_texts[i])
                 THEN SelectSeq(license_texts, Marked)[1].k
            ELSE NOFILE
        potential_license_files == {n \in ListDir(w) : n \in MarkedNames}
    IN  IF Cardinality(potential_license_files) = 1
        THEN <<CHOOSE n \in potential_license_files : TRUE>>
        ELSE byscan

TextFileStep(tags, license_texts, w) ==
    LET i == MinOrZero(NoTextFile(tags))
    IN  IF i = 0 THEN tags
        ELSE [tags EXCEPT ![i].v.license_text_file =
                InferredTextFile(license_texts, w)]

\* Package._check_for_single_tag_without_file
_check_for_single_tag_without_file(tags, license_texts) ==
    IF Len(tags) = 1 /\ Len(license_texts) = 1
       /\ tags[1].v.id_from_license_text = NoneExpr
    THEN [tags EXCEPT ![1].v.id_from_license_text = license_texts[1].v.expr]
    ELSE tags

\* what the property Package.license_tags gives: [pkg: the Package afterwards,
\* exc: what the access raised].  The value returned is pkg.license_tags.
TagsResult(p, tags, exc) ==
    [pkg |-> [p EXCEPT !.tags_set = TRUE, !.license_tags = tags,
                       !.tags_allocs = @ + 1],
     exc |-> exc]

\* the rest of Package._check_single_license_tag_without_file_attribute and
\* Package._check_for_single_tag_without_file; p has the scan results the
\* inference reads
InferTextFile(p, tags, w) ==
    TagsResult(p,
               _check_for_single_tag_without_file(
                   TextFileStep(tags, p.found_license_texts, w),
                   p.found_license_texts),
               NoExc)

\* a variant of the operation below that infers a text file for the first tag
\* without one, however many there are
InferForFirstTag(p, tags, w) ==
    InferTextFile(_run_scan_and_save_results(p, w), tags, w)

\* Package._check_single_license_tag_without_file_attribute and what
\* license_tags does after it
_check_single_license_tag_without_file_attribute(p, tags, w) ==
    IF Cardinality(NoTextFile(tags)) > 1
    THEN TagsResult(p, tags, MoreThanOneLicenseWithoutLicenseTextFile)
    ELSE InferTextFile(IF NoTextFile(tags) # {} \/ Len(tags) = 1
                       THEN _run_scan_and_save_results(p, w)
                       ELSE p,
                       tags, w)

\* a variant of the operation below that makes the first tag without
\* source-files the main license, however many there are
PickFirstTag(p, tags, w) ==
    _check_single_license_tag_without_file_attribute(
        p, MainLicenseStep(tags, w), w)

\* Package._check_single_license_tag_without_source_files and what
\* license_tags does after it
_check_single_license_tag_without_source_files(p, tags, w) ==
    IF Cardinality(NoSourceFiles(tags)) > 1
    THEN TagsResult(p, tags, MoreThanOneLicenseWithoutSourceFilesTag)
    ELSE _check_single_license_tag_without_file_attribute(
            p, MainLicenseStep(tags, w), w)

\* Package.license_tags from the loop over the <license> elements on; p has
\* the scan results if an element has a file attribute
BuildTags(p, w) ==
    _check_single_license_tag_without_source_files(
        p, ParseTags(w.manifest, p.found_license_texts, w), w)

\* the text of a <license> element without text (element.text is None)
NO_TEXT == ""

\* Package.license_tags from the loop on, when the element at position i is
\* the first without text (0: none is): LicenseTag.__init__ asserts for it
ParsedUpTo(p, w, i) ==
    IF i = 0 THEN BuildTags(p, w)
    ELSE TagsResult(p,
                    ParseTags(SubSeq(w.manifest, 1, i - 1),
                              p.found_license_texts, w),
                    AssertNoText)

\* a variant of the property below that runs the inference pass on every
\* access
InferOnEveryAccess(p, w) ==
    IF p.tags_set /\ p.license_tags # <<>>
    THEN InferTextFile(_run_scan_and_save_results(p, w),
                       MainLicenseStep(p.license_tags, w), w)
    ELSE IF p.tags_set THEN [pkg |-> p, exc |-> NoExc]
    ELSE IF w.xml \in {"missing", "malformed"}
    THEN [pkg |-> [p EXCEPT !.tags_set = TRUE, !.tags_allocs = @ + 1],
          exc |-> "FileNotFoundError"]
    ELSE BuildTags(_run_scan_and_save_results(p, w), w)

\* Package.license_tags (a property)
license_tags(p, w) ==
    IF p.tags_set THEN [pkg |-> p, exc |-> NoExc]
    ELSE IF w.xml \in {"missing", "malformed"}
    THEN [pkg |-> [p EXCEPT !.tags_set = TRUE, !.tags_allocs = @ + 1],
          exc |-> IF w.xml = "missing" THEN "FileNotFoundError"
                  ELSE "ParseError"]
    ELSE ParsedUpTo(IF \E i \in 1..Len(w.manifest) :
                        w.manifest[i].file # NOFILE
                    THEN _run_scan_and_save_results(p, w) ELSE p,
                    w,
                    MinOrZero({i \in 1..Len(w.manifest) :
                                    w.manifest[i].id = NO_TEXT}))

\* Package.get_license_files, when no tag lacks a text file (else it asserts)
get_license_files(tags) ==
    {tags[i].v.license_text_file : i \in 1..Len(tags)}

----------------------------------------------------------------------------
\* Checks.  A Check object is [status, reason]; _check is modelled as an
\* operator giving [pkg, exc, status, reason, r]: the Package afterwards,
\* what _check raised, the status and reason it set, the records it collected.

NO_REASON_STR == "No reason provided."

\* main has not returned
NotReturned == [args |-> <<>>, printed |-> -1, code |-> -1]

\* Check.__init__
NewCheck == [status |-> FAILURE, reason |-> NO_REASON_STR]

Out(p, exc, status, reason, r) ==
    [pkg |-> p, exc |-> exc, status |-> status, reason |-> reason, r |-> r]

\* _check raised exc before setting any status
Raised(p, exc, r) == Out(p, exc, FAILURE, NO_REASON_STR, r)

\* SchemaCheck._check (schema download and validation are not modelled: a
\* well-formed manifest of format 1..3 validates)
SchemaCheck(p, w) ==
    CASE w.xml = "missing"   -> Raised(p, AssertNoManifest, <<>>)
      [] w.xml = "malformed" -> Raised(p, "XMLSyntaxError", <<>>)
      [] w.xml = "v4"        -> Out(p, NoExc, WARNING, "schema: version 4", <<>>)
      [] w.xml = "badformat" -> Out(p, NoExc, FAILURE, "schema: no format", <<>>)
      [] OTHER               -> Out(p, NoExc, SUCCESS, "schema: validated", <<>>)

\* a variant of the check below that only warns about an empty declaration set
TagExistsOrWarn(t) ==
    IF t.exc # NoExc THEN Raised(t.pkg, t.exc, <<>>)
    ELSE IF Len(t.pkg.license_tags) = 0
    THEN Out(t.pkg, NoExc, WARNING, "No license tag defined.", <<>>)
    ELSE Out(t.pkg, NoExc, SUCCESS, "Found licenses", <<>>)

\* LicenseTagExistsCheck._check once package.license_tags gave t
TagExistsWith(t) ==
    IF t.exc # NoExc THEN Raised(t.pkg, t.exc, <<>>)
    ELSE IF Len(t.pkg.license_tags) = 0
    THEN Out(t.pkg, NoExc, FAILURE, "No license tag defined.", <<>>)
    ELSE Out(t.pkg, NoExc, SUCCESS, "Found licenses", <<>>)

\* LicenseTagExistsCheck._check
LicenseTagExistsCheck(p, w) == TagExistsWith(license_tags(p, w))

\* a variant of the collection below that stops at the first tag it finds
FirstNotInSpdxList(tags) ==
    LET NotInList(e) == ~is_license_name_in_spdx_list(e.k)
    IN  [i \in 1..(IF SelectSeq(tags, NotInList) = <<>> THEN 0 ELSE 1) |->
            SelectSeq(tags, NotInList)[i].k]

\* the tags LicenseTagIsInSpdxListCheck._check collects
licenses_not_in_spdx_list(tags) ==
    LET NotInList(e) == ~is_license_name_in_spdx_list(e.k)
    IN  [i \in 1..Len(SelectSeq(tags, NotInList)) |->
            SelectSeq(tags, NotInList)[i].k]

\* LicenseTagIsInSpdxListCheck._check once package.license_tags gave t
TagIsInSpdxListWith(t) ==
    IF t.exc # NoExc THEN Raised(t.pkg, t.exc, <<>>)
    ELSE IF Len(licenses_not_in_spdx_list(t.pkg.license_tags)) > 0
    THEN Out(t.pkg, NoExc, WARNING, "Licenses are not in SPDX list",
             licenses_not_in_spdx_list(t.pkg.license_tags))
    ELSE Out(t.pkg, NoExc, SUCCESS,
             "All license tags are in SPDX list of licenses.",
             licenses_not_in_spdx_list(t.pkg.license_tags))

\* LicenseTagIsInSpdxListCheck._check
LicenseTagIsInSpdxListCheck(p, w) == TagIsInSpdxListWith(license_tags(p, w))

----------------------------------------------------------------------------
\* LicenseTextExistsCheck

NoTextFileDefined == "No license text file defined."
TextFileDoesNotExist == "License text file does not exist."
TextFileNotInScan == "License text file not included in scan results."
TextFileNotRecognized == "License text file is not recognized as license text."
TextFileOfOtherLicense == "License text file is of another license than the tag."

\* what fetching the reference text and comparing gives: the fetch raises,
\* fails (no 200 response) or succeeds, and then the texts are pct % similar
SimInputs == {[fetch |-> "raise", pct |-> 0], [fetch |-> "fail", pct |-> 0],
              [fetch |-> "ok", pct |-> 89], [fetch |-> "ok", pct |-> 90]}

\* LicenseTextExistsCheck.compare_text_with_spdx_text when it returns:
\* <<>> is None
compare_text_with_spdx_text(inp) ==
    IF inp.fetch = "ok" THEN <<inp.pct>> ELSE <<>>

\* a variant of the conditions below that looks into the scan results before
\* it looks at the disk
MissingTextReasonScanFirst(tag, texts, w) ==
    IF ~has_license_text_file(tag) THEN NoTextFileDefined
    ELSE IF tag.license_text_file \notin Keys(texts) THEN TextFileNotInScan
    ELSE IF ~Exists(w, tag.license_text_file) THEN TextFileDoesNotExist
    ELSE IF ~Truthy(get_spdx_license_name(Get(texts, tag.license_text_file)))
         THEN TextFileNotRecognized
    ELSE ""

\* the first conditions of the loop body of _check_licenses: the reason
\* recorded for the tag, "" when none of them applies
MissingTextReason(tag, texts, w) ==
    IF ~has_license_text_file(tag) THEN NoTextFileDefined
    ELSE IF ~Exists(w, tag.license_text_file) THEN TextFileDoesNotExist
    ELSE IF tag.license_text_file \notin Keys(texts) THEN TextFileNotInScan
    ELSE IF ~Truthy(get_spdx_license_name(Get(texts, tag.license_text_file)))
         THEN TextFileNotRecognized
    ELSE ""

\* a variant of the status below that never fails a tag for its text being
\* of another license
MismatchStatusWarning(license_id) == WARNING

\* the status recorded for a tag whose text is of another license
MismatchStatus(license_id) ==
    IF is_license_name_in_spdx_list(license_id) THEN FAILURE ELSE WARNING

\* is the similarity too low to accept the text (or not available)
SimilarityRejects(similarity_of_texts) ==
    \/ similarity_of_texts = <<>>
    \/ similarity_of_texts[1] < SIMILARITY_THRESHOLD

NewTextRecords ==
    [license_tags_without_license_text |-> <<>>,
     missing_license_texts_status |-> <<>>,
     files_with_wrong_tags |-> <<>>,
     similarity_of_texts |-> <<>>,
     exc |-> NoExc]

\* one iteration of the loop of _check_licenses (similarity_of_texts keeps
\* the value of the local variable of that name for each tag it was set for)
CheckOneLicense(tag, texts, w, inp, acc) ==
    LET why == MissingTextReason(tag, texts, w)
        actual_license ==
            get_spdx_license_name(Get(texts, tag.license_text_file))
    IN  IF why # ""
        THEN [acc EXCEPT
                !.license_tags_without_license_text = Put(@, tag.id, why),
                !.missing_license_texts_status = Put(@, tag.id, FAILURE)]
        ELSE IF ExprIsId(actual_license, tag.id) THEN acc
        ELSE IF inp.fetch = "raise" THEN [acc EXCEPT !.exc = "ConnectionError"]
        ELSE IF SimilarityRejects(compare_text_with_spdx_text(inp))
        THEN [acc EXCEPT
                !.similarity_of_texts =
                    Put(@, tag.id, compare_text_with_spdx_text(inp)),
                !.license_tags_without_license_text =
                    Put(@, tag.id, TextFileOfOtherLicense),
                !.missing_license_texts_status =
                    Put(@, tag.id, MismatchStatus(tag.id)),
                !.files_with_wrong_tags =
                    Put(@, tag.id, [actual_license |-> actual_license,
                                    license_tag |-> tag.id])]
        ELSE [acc EXCEPT
                !.similarity_of_texts =
                    Put(@, tag.id, compare_text_with_spdx_text(inp))]

\* LicenseTextExistsCheck._check_licenses; sims: the similarity input per tag
RECURSIVE _check_licenses(_, _, _, _, _)
_check_licenses(tags, texts, w, sims, acc) ==
    IF tags = <<>> \/ acc.exc # NoExc THEN acc
    ELSE _check_licenses(Tail(tags), texts, w, sims,
            CheckOneLicense(Head(tags).v, texts, w, sims[Head(tags).k], acc))

\* a variant of the evaluation below that warns as soon as one tag warns
EvaluateResultsAnyWarning(r) ==
    IF Len(r.license_tags_without_license_text) > 0
    THEN IF WARNING \in Range(Values(r.missing_license_texts_status))
         THEN <<WARNING, "Since they are not in the SPDX list, we can not check">>
         ELSE <<FAILURE, "The following license tags do not have a valid license text file">>
    ELSE <<SUCCESS, "All license tags have a valid license text file.">>

\* LicenseTextExistsCheck._evaluate_results: <<status, reason>>
_evaluate_results(r) ==
    IF Len(r.license_tags_without_license_text) > 0
    THEN IF SeqMax(Values(r.missing_license_texts_status)) = WARNING
         THEN <<WARNING, "Since they are not in the SPDX list, we can not check">>
         ELSE <<FAILURE, "The following license tags do not have a valid license text file">>
    ELSE <<SUCCESS, "All license tags have a valid license text file.">>

\* what _check sets from the records r
Evaluated(p, r, e) ==
    IF r.exc # NoExc THEN Raised(p, r.exc, r)
    ELSE Out(p, NoExc, e[1], e[2], r)

\* LicenseTextExistsCheck._check from _check_licenses on; p has the scan
TextExistsScanned(p, r) == Evaluated(p, r, _evaluate_results(r))

\* LicenseTextExistsCheck._check once package.license_tags gave t
TextExistsWith(t, p, w, sims) ==
    IF t.exc # NoExc THEN Raised(t.pkg, t.exc, NewTextRecords)
    ELSE IF Len(t.pkg.license_tags) = 0
    THEN Out(t.pkg, NoExc, FAILURE, "No license tag defined.", NewTextRecords)
    ELSE TextExistsScanned(
            p, _check_licenses(p.license_tags, p.found_license_texts, w,
                               sims, NewTextRecords))

\* the Package once package.license_tags gave t and the scan has run
Scanned(t, w) == _run_scan_and_save_results(t.pkg, w)

\* LicenseTextExistsCheck._check
LicenseTextExistsCheck(p, w, sims) ==
    TextExistsWith(license_tags(p, w), Scanned(license_tags(p, w), w), w, sims)

----------------------------------------------------------------------------
\* LicensesInCodeCheck

\* the dict {lic_tag.id_from_license_text: key for key, lic_tag in
\* package.license_tags.items() if lic_tag.id_from_license_text != ""}
RECURSIVE unofficial_licenses(_)
unofficial_licenses(tags) ==
    IF tags = <<>> THEN <<>>
    ELSE LET e    == tags[Len(tags)]
             rest == unofficial_licenses(SubSeq(tags, 1, Len(tags) - 1))
         IN  IF e.v.id_from_license_text # <<>>
             THEN Put(rest, e.v.id_from_license_text, e.k) ELSE rest

NewCodeRecords ==
    [files_with_uncovered_licenses |-> <<>>,
     files_not_matched_by_any_license_tag |-> <<>>,
     files_with_unofficial_tag |-> <<>>,
     exc |-> NoExc]

\* the body of the loop over the conjuncts of one file's expression
ClassifyLicense(fname, license_str, tags, acc) ==
    IF license_str \notin Keys(tags)
    THEN IF <<license_str>> \in Keys(unofficial_licenses(tags))
         THEN [acc EXCEPT !.files_with_unofficial_tag =
                 AppendTo(AppendTo(@, fname, license_str), fname,
                          Get(unofficial_licenses(tags), <<license_str>>))]
         ELSE [acc EXCEPT !.files_with_uncovered_licenses =
                 AppendTo(@, fname, license_str)]
    ELSE IF ~has_source_files(Get(tags, license_str))
    THEN [acc EXCEPT !.exc = AssertNoSourceFiles]
    ELSE IF fname \notin Get(tags, license_str).source_files
    THEN [acc EXCEPT !.files_not_matched_by_any_license_tag =
            AppendTo(@, fname, license_str)]
    ELSE acc

RECURSIVE ClassifyLicenses(_, _, _, _)
ClassifyLicenses(fname, licenses, tags, acc) ==
    IF licenses = <<>> \/ acc.exc # NoExc THEN acc
    ELSE ClassifyLicenses(fname, Tail(licenses), tags,
            ClassifyLicense(fname, Head(licenses), tags, acc))

\* LicensesInCodeCheck._check_license_files; files: found_files_w_licenses
RECURSIVE _check_license_files(_, _, _)
_check_license_files(files, tags, acc) ==
    IF files = <<>> \/ acc.exc # NoExc THEN acc
    ELSE LET fname == Head(files).k
             found_licenses_str == Head(files).v.expr
         IN  IF NoTextFile(tags) # {}
             THEN [acc EXCEPT !.exc = AssertNoFileAttribute]
             ELSE _check_license_files(Tail(files), tags,
                    IF fname \in get_license_files(tags)
                       \/ ~Truthy(found_licenses_str)
                    THEN acc
                    ELSE ClassifyLicenses(fname, found_licenses_str, tags, acc))

\* LicensesInCodeCheck._evaluate_result: <<status, reason>>
_evaluate_result(r) ==
    IF Len(r.files_with_uncovered_licenses) > 0
    THEN <<FAILURE, "files contain licenses that are not covered by any license tag">>
    ELSE IF Len(r.files_with_unofficial_tag) > 0
    THEN <<WARNING, "please change the License Tag in the package file to SPDX format">>
    ELSE IF Len(r.files_not_matched_by_any_license_tag) > 0
    THEN <<FAILURE, "files are not listed in the source files of the license tag">>
    ELSE <<SUCCESS, "All licenses found in the code are covered by a license declaration.">>

\* LicensesInCodeCheck._check from _check_license_files on
InCodeScanned(p, r) == Evaluated(p, r, _evaluate_result(r))

\* a variant of the check below that goes on to the files of a package
\* without a license tag
InCodeWithoutGuard(t, p) ==
    IF t.exc # NoExc THEN Raised(t.pkg, t.exc, NewCodeRecords)
    ELSE InCodeScanned(
            p, _check_license_files(p.found_files_w_licenses, p.license_tags,
                                    NewCodeRecords))

\* LicensesInCodeCheck._check once package.license_tags gave t; p has the scan
InCodeWith(t, p) ==
    IF t.exc # NoExc THEN Raised(t.pkg, t.exc, NewCodeRecords)
    ELSE IF Len(t.pkg.license_tags) = 0
    THEN Out(t.pkg, NoExc, FAILURE, "No license tag defined.", NewCodeRecords)
    ELSE InCodeScanned(
            p, _check_license_files(p.found_files_w_licenses, p.license_tags,
                                    NewCodeRecords))

\* LicensesInCodeCheck._check
LicensesInCodeCheck(p, w) ==
    InCodeWith(license_tags(p, w), Scanned(license_tags(p, w), w))

----------------------------------------------------------------------------
\* LicenseFilesReferencedCheck

NewReferencedRecords ==
    [not_covered_texts |-> <<>>, inofficial_covered_texts |-> <<>>]

\* LicenseFilesReferencedCheck._handle_inofficial_licenses
_handle_inofficial_licenses(tags, filename, license_text, acc) ==
    LET spdx_expression == license_text.expr
        inofficial_licenses == unofficial_licenses(tags)
    IN  IF \E k \in Keys(tags) : ExprIsId(spdx_expression, k) THEN acc
        ELSE IF spdx_expression \in Keys(inofficial_licenses)
        THEN [acc EXCEPT !.inofficial_covered_texts =
                Put(@, filename,
                    [actual_license |-> spdx_expression,
                     license_tag |-> Get(inofficial_licenses, spdx_expression)])]
        ELSE [acc EXCEPT !.not_covered_texts =
                Put(@, filename, spdx_expression)]

\* the loop of LicenseFilesReferencedCheck._check
RECURSIVE HandleLicenseTexts(_, _, _)
HandleLicenseTexts(texts, tags, acc) ==
    IF texts = <<>> THEN acc
    ELSE HandleLicenseTexts(Tail(texts), tags,
            IF ~is_in_package(Head(texts).k) THEN acc
            ELSE _handle_inofficial_licenses(tags, Head(texts).k,
                                             Head(texts).v, acc))

\* LicenseFilesReferencedCheck._evaluate_results: <<status, reason>>
ReferencedEvaluateResults(r) ==
    IF Len(r.not_covered_texts) > 0
    THEN <<FAILURE, "The following license files are not mentioned by any tag">>
    ELSE IF Len(r.inofficial_covered_texts) > 0
    THEN <<WARNING, "license files are mentioned by a tag of another name">>
    ELSE <<SUCCESS, "All license declaration are referenced by a tag.">>

\* LicenseFilesReferencedCheck._check once package.license_tags gave t
ReferencedWith(t, r) ==
    IF t.exc # NoExc THEN Raised(t.pkg, t.exc, NewReferencedRecords)
    ELSE Out(t.pkg, NoExc, ReferencedEvaluateResults(r)[1],
             ReferencedEvaluateResults(r)[2], r)

\* the loop of _check over t.pkg
ReferencedLoop(t) ==
    ReferencedWith(t, HandleLicenseTexts(t.pkg.found_license_texts,
                                         t.pkg.license_tags,
                                         NewReferencedRecords))

\* _check reads package.license_tags only for a license text in the package
ReferencedScanned(p, w) ==
    ReferencedLoop(IF \E i \in 1..Len(p.found_license_texts) :
                        is_in_package(p.found_license_texts[i].k)
                   THEN license_tags(p, w)
                   ELSE [pkg |-> p, exc |-> NoExc])

\* LicenseFilesReferencedCheck._check
LicenseFilesReferencedCheck(p, w) ==
    ReferencedScanned(_run_scan_and_save_results(p, w), w)

----------------------------------------------------------------------------
\* process_one_pkg and the loop of main

checks_to_perform ==
    <<"SchemaCheck", "LicenseTagExistsCheck", "LicenseTagIsInSpdxListCheck",
      "LicenseTextExistsCheck", "LicensesInCodeCheck",
      "LicenseFilesReferencedCheck">>

CheckNames == Range(checks_to_perform)

\* where process_one_pkg goes after the check at position i
After(name) ==
    LET i == CHOOSE j \in 1..Len(checks_to_perform) : checks_to_perform[j] = name
    IN  IF i = Len(checks_to_perform) THEN "overall" ELSE checks_to_perform[i + 1]

NewChecks == [n \in CheckNames |-> NewCheck]
NewRecords ==
    [n \in CheckNames |->
        CASE n = "LicenseTextExistsCheck" -> NewTextRecords
          [] n = "LicensesInCodeCheck" -> NewCodeRecords
          [] n = "LicenseFilesReferencedCheck" -> NewReferencedRecords
          [] OTHER -> <<>>]

\* Check.check: which exceptions of _check it turns into a failed check
Caught(exc) == exc \in PackageException \cup AssertionError

\* Check.check: the Check object after _check gave `out`
check(out) ==
    IF Caught(out.exc) THEN [status |-> FAILURE, reason |-> out.exc]
    ELSE [status |-> out.status, reason |-> out.reason]

\* one iteration of `for check in checks_to_perform: check.check(package)`;
\* an exception Check.check does not catch ends the run
RunCheck(name, out) ==
    /\ pc = name
    /\ pkg' = out.pkg
    /\ rec' = [rec EXCEPT ![name] = out.r]
    /\ IF out.exc = NoExc \/ Caught(out.exc)
       THEN /\ chk' = [chk EXCEPT ![name] = check(out)]
            /\ pc' = After(name)
            /\ uncaught' = uncaught
       ELSE /\ chk' = chk
            /\ pc' = "crashed"
            /\ uncaught' = out.exc
    /\ UNCHANGED <<world, results, returned, calls, cache>>

RunSchemaCheck == RunCheck("SchemaCheck", SchemaCheck(pkg, world))

RunLicenseTagExistsCheck ==
    RunCheck("LicenseTagExistsCheck", LicenseTagExistsCheck(pkg, world))

RunLicenseTagIsInSpdxListCheck ==
    RunCheck("LicenseTagIsInSpdxListCheck",
             LicenseTagIsInSpdxListCheck(pkg, world))

RunLicenseTextExistsCheck ==
    \E sims \in [{world.manifest[i].id : i \in 1..Len(world.manifest)}
                    -> SimInputs] :
        RunCheck("LicenseTextExistsCheck",
                 LicenseTextExistsCheck(pkg, world, sims))

RunLicensesInCodeCheck ==
    RunCheck("LicensesInCodeCheck", LicensesInCodeCheck(pkg, world))

RunLicenseFilesReferencedCheck ==
    RunCheck("LicenseFilesReferencedCheck",
             LicenseFilesReferencedCheck(pkg, world))

\* a variant of the status below that takes the verdict of the last check
PackageStatusOfLastCheck(c) == c["LicenseFilesReferencedCheck"].status

\* the status process_one_pkg records for the package
PackageStatus(c) ==
    IF SetMax({c[n].status : n \in CheckNames}) = SUCCESS THEN SUCCESS
    ELSE IF SetMax({c[n].status : n \in CheckNames}) = WARNING THEN WARNING
    ELSE FAILURE

\* no package is being processed
NoWorld ==
    [manifest |-> <<>>, xml |-> "ok", repo |-> <<>>,
     scanignore |-> <<>>, walk |-> PkgWalk,
     files |-> <<>>]

\* process_one_pkg returns for a package that is not the last one: its
\* checks are dropped, main's loop is about to take the next package
ReturnFromPkg ==
    /\ pc = "overall"
    /\ Len(results) + 1 < MaxPkgs
    /\ results' = Append(results, PackageStatus(chk))
    /\ world' = NoWorld
    /\ pkg' = NewPackage
    /\ chk' = NewChecks
    /\ rec' = NewRecords
    /\ pc' = "main"
    /\ UNCHANGED <<uncaught, returned, calls, cache>>

\* main's loop takes the next package and process_one_pkg makes its checks
NextPackage ==
    /\ pc = "main"
    /\ \E w \in LaterWorlds : world' = w
    /\ pkg' = NewPackage
    /\ chk' = NewChecks
    /\ rec' = NewRecords
    /\ pc' = checks_to_perform[1]
    /\ UNCHANGED <<results, uncaught, returned, calls, cache>>

\* process_one_pkg returns for the last package
LastPackage ==
    /\ pc = "overall"
    /\ results' = Append(results, PackageStatus(chk))
    /\ pc' = "finished"
    /\ UNCHANGED <<world, pkg, chk, rec, uncaught, returned, calls, cache>>

\* the command line flags print_results reads
Args == [continue_on_error : BOOLEAN, warnings_as_error : BOOLEAN]

\* a variant of the operation below that never treats errors as warnings
PrintResultsStrict(result, args) ==
    IF SeqMax(result) = SUCCESS
    THEN [args |-> args, printed |-> SUCCESS, code |-> EX_OK]
    ELSE IF SeqMax(result) = WARNING /\ ~args.warnings_as_error
    THEN [args |-> args, printed |-> WARNING, code |-> EX_OK]
    ELSE [args |-> args, printed |-> FAILURE, code |-> EX_DATAERR]

\* a variant of the operation below in which warnings_as_error also applies
\* to the errors continue_on_error treats as warnings
PrintResultsWarningsAsErrorFirst(result, args) ==
    IF SeqMax(result) = SUCCESS
    THEN [args |-> args, printed |-> SUCCESS, code |-> EX_OK]
    ELSE IF args.warnings_as_error
    THEN [args |-> args, printed |-> FAILURE, code |-> EX_DATAERR]
    ELSE IF SeqMax(result) = WARNING \/ args.continue_on_error
    THEN [args |-> args, printed |-> WARNING, code |-> EX_OK]
    ELSE [args |-> args, printed |-> FAILURE, code |-> EX_DATAERR]

\* print_results: the status whose word it prints for all packages and the
\* code it returns; result holds the values of results_per_package
print_results(result, args) ==
    IF SeqMax(result) = SUCCESS
    THEN [args |-> args, printed |-> SUCCESS, code |-> EX_OK]
    ELSE IF SeqMax(result) = WARNING
    THEN IF args.warnings_as_error
         THEN [args |-> args, printed |-> FAILURE, code |-> EX_DATAERR]
         ELSE [args |-> args, printed |-> WARNING, code |-> EX_OK]
    ELSE IF args.continue_on_error
    THEN [args |-> args, printed |-> WARNING, code |-> EX_OK]
    ELSE [args |-> args, printed |-> FAILURE, code |-> EX_DATAERR]

\* main returns print_results(...) after the last package; the Package and
\* the checks of the last package are gone with it
PrintResults ==
    /\ pc = "finished"
    /\ \E args \in Args : returned' = print_results(results, args)
    /\ world' = NoWorld
    /\ pkg' = NewPackage
    /\ chk' = NewChecks
    /\ rec' = NewRecords
    /\ pc' = "returned"
    /\ UNCHANGED <<results, uncaught, calls, cache>>

Init ==
    /\ world \in Worlds
    /\ pkg = NewPackage
    /\ chk = NewChecks
    /\ rec = NewRecords
    /\ pc = checks_to_perform[1]
    /\ results = <<>>
    /\ uncaught = NoExc
    /\ returned = NotReturned
    /\ calls = <<>>
    /\ cache = <<>>

Next ==
    \/ RunSchemaCheck
    \/ RunLicenseTagExistsCheck
    \/ RunLicenseTagIsInSpdxListCheck
    \/ RunLicenseTextExistsCheck
    \/ RunLicensesInCodeCheck
    \/ RunLicenseFilesReferencedCheck
    \/ ReturnFromPkg
    \/ NextPackage
    \/ LastPackage
    \/ PrintResults

Spec == Init /\ [][Next]_vars

----------------------------------------------------------------------------
\* Properties of LicenseTextExistsCheck

\* the check named n has run to its end for the package being processed
Completed(n) == chk[n].reason # NO_REASON_STR

\* the declarations of the package being processed
Declarations == Range(Values(pkg.license_tags))

TextRec == rec["LicenseTextExistsCheck"]

\* the scan result of the text file a declaration links
LinkedText(tag) == Get(pkg.found_license_texts, tag.license_text_file)

\* the linked text file exists, was scanned as a license text and the scan
\* recovered an identifier from it
HasRecognisedText(tag) ==
    /\ tag.license_text_file # NOFILE
    /\ abspath(PKG_ABS \o tag.license_text_file) \in DOMAIN world.files
    /\ tag.license_text_file \in Keys(pkg.found_license_texts)
    /\ LinkedText(tag).pct >= REQUIRED_PERCENTAGE_OF_LICENSE_TEXT
    /\ LinkedText(tag).expr \notin {NoneExpr, <<>>}

\* the identifier recovered from the linked text differs from the declared one
RecoveredDiffers(tag) ==
    HasRecognisedText(tag) /\ LinkedText(tag).expr # <<tag.id>>

\* the outcome C1 states for a declaration whose recovered identifier differs
MismatchOutcomeRecorded(tag) ==
    /\ tag.id \in Keys(TextRec.missing_license_texts_status)
    /\ Get(TextRec.missing_license_texts_status, tag.id) =
            IF tag.id \in SpdxList THEN FAILURE ELSE WARNING
    /\ Get(TextRec.missing_license_texts_status, tag.id) = WARNING =>
            /\ tag.id \in Keys(TextRec.files_with_wrong_tags)
            /\ Get(TextRec.files_with_wrong_tags, tag.id) =
                    [actual_license |-> LinkedText(tag).expr,
                     license_tag |-> tag.id]

\* the similarity to the reference text was computed for the declaration and
\* is missing or below the threshold
SimilarityTooLow(tag) ==
    /\ tag.id \in Keys(TextRec.similarity_of_texts)
    /\ \/ Get(TextRec.similarity_of_texts, tag.id) = <<>>
       \/ Get(TextRec.similarity_of_texts, tag.id)[1] < SIMILARITY_THRESHOLD

RecordedAs(tag, reason) ==
    /\ tag.id \in Keys(TextRec.license_tags_without_license_text)
    /\ Get(TextRec.license_tags_without_license_text, tag.id) = reason
    /\ Get(TextRec.missing_license_texts_status, tag.id) = FAILURE

\* C2: each declaration is recorded as FAILURE under the first applicable of
\* (a) no text file linked, (b) linked path not on disk, (c) linked file not
\* among the scanned license texts, (d) no identifier recovered from it; and
\* each declaration has at most one recorded reason and one recorded status.
C2_FirstApplicableCondition ==
    Completed("LicenseTextExistsCheck") =>
        /\ \A tag \in Declarations :
            LET f == tag.license_text_file
                OnDisk == abspath(PKG_ABS \o f) \in DOMAIN world.files
                InScan == f \in Keys(pkg.found_license_texts)
            IN  /\ f = NOFILE => RecordedAs(tag, NoTextFileDefined)
                /\ f # NOFILE /\ ~OnDisk =>
                        RecordedAs(tag, TextFileDoesNotExist)
                /\ f # NOFILE /\ OnDisk /\ ~InScan =>
                        RecordedAs(tag, TextFileNotInScan)
                /\ f # NOFILE /\ OnDisk /\ InScan /\ ~HasRecognisedText(tag) =>
                        RecordedAs(tag, TextFileNotRecognized)
        /\ Cardinality(Keys(TextRec.license_tags_without_license_text)) =
                Len(TextRec.license_tags_without_license_text)
        /\ Cardinality(Keys(TextRec.missing_license_texts_status)) =
                Len(TextRec.missing_license_texts_status)

\* one package where a linked file is missing on disk and another linked file
\* was scanned but gave no identifier
C2_Witness ==
    /\ Completed("LicenseTextExistsCheck")
    /\ \E t1, t2 \in Declarations :
        /\ RecordedAs(t1, TextFileDoesNotExist)
        /\ RecordedAs(t2, TextFileNotRecognized)

\* a declaration triggers one of the conditions (a)-(e)
Triggered(tag) ==
    \/ ~HasRecognisedText(tag)
    \/ RecoveredDiffers(tag) /\ SimilarityTooLow(tag)

\* C3: for a package with at least one declaration the verdict is SUCCESS iff
\* no declaration triggered a condition, FAILURE iff a triggered declaration
\* is a FAILURE, and WARNING iff some declaration triggered and every
\* triggered declaration is a WARNING.
C3_VerdictIsMaxSeverity ==
    Completed("LicenseTextExistsCheck") /\ Len(pkg.license_tags) > 0 =>
        LET status  == chk["LicenseTextExistsCheck"].status
            outcome == TextRec.missing_license_texts_status
            hit     == {tag \in Declarations : Triggered(tag)}
        IN  /\ Keys(outcome) = {tag.id : tag \in hit}
            /\ status = SUCCESS <=> hit = {}
            /\ status = FAILURE <=>
                    \E tag \in hit : Get(outcome, tag.id) = FAILURE
            /\ status = WARNING <=>
                    /\ hit # {}
                    /\ \A tag \in hit : Get(outcome, tag.id) = WARNING

\* a FAILURE declaration and a WARNING declaration give FAILURE
C3_Witness ==
    /\ Completed("LicenseTextExistsCheck")
    /\ chk["LicenseTextExistsCheck"].status = FAILURE
    /\ \E t1, t2 \in Declarations :
        /\ Triggered(t1) /\ Triggered(t2)
        /\ Get(TextRec.missing_license_texts_status, t1.id) = FAILURE
        /\ Get(TextRec.missing_license_texts_status, t2.id) = WARNING

----------------------------------------------------------------------------
\* Properties of LicensesInCodeCheck

CodeRec == rec["LicensesInCodeCheck"]

\* LicensesInCodeCheck classified the files: it ran to its end without an
\* exception, for a package with a declaration
Classified ==
    /\ Completed("LicensesInCodeCheck")
    /\ Len(pkg.license_tags) > 0
    /\ CodeRec.exc = NoExc

\* the scanned files the check classifies, with the conjuncts of each
CodeFiles ==
    {e \in Range(pkg.found_files_w_licenses) :
        /\ e.k \notin {tag.license_text_file : tag \in Declarations}
        /\ e.v.expr \notin {NoneExpr, <<>>}}

\* what is recorded for file f in the dict d (nothing: <<>>)
RecordedFor(d, f) == IF f \in Keys(d) THEN Get(d, f) ELSE <<>>

\* conjunct c equals the identifier recovered from the license text of an
\* unofficial declaration
UnofficialCorrespondence(c) ==
    \E tag \in Declarations :
        tag.id \notin SpdxList /\ tag.id_from_license_text = <<c>>

\* C4: every conjunct of a scanned file's expression is classified on its
\* own: one that matches no declaration is recorded as an unofficial-tag
\* correspondence only if it equals the identifier recovered from the text of
\* a declaration whose identifier is not in the SPDX list, and as uncovered
\* otherwise; one that matches a declaration not owning the file is recorded
\* as declared but not attributed.
C4_ConjunctsClassified ==
    Classified =>
        \A e \in CodeFiles : \A c \in Range(e.v.expr) :
            LET declared == \E tag \in Declarations : tag.id = c
                owned == \E tag \in Declarations :
                            tag.id = c /\ e.k \in tag.source_files
                InUnofficial ==
                    c \in Range(RecordedFor(CodeRec.files_with_unofficial_tag, e.k))
                InUncovered ==
                    c \in Range(RecordedFor(CodeRec.files_with_uncovered_licenses, e.k))
                InNotMatched ==
                    c \in Range(RecordedFor(
                            CodeRec.files_not_matched_by_any_license_tag, e.k))
            IN  /\ ~declared /\ UnofficialCorrespondence(c) =>
                        InUnofficial /\ ~InUncovered
                /\ ~declared /\ ~UnofficialCorrespondence(c) =>
                        InUncovered /\ ~InUnofficial
                /\ declared /\ ~owned => InNotMatched
                /\ declared /\ owned => ~InNotMatched

\* C5: the verdict follows the priority order over the records: FAILURE with
\* an uncovered-license record, else WARNING with an unofficial-tag record,
\* else FAILURE with a not-attributed record, else SUCCESS; and a file whose
\* license has no declaration and no unofficial correspondence makes the check
\* FAILURE and is listed.
C5_VerdictFollowsRecords ==
    Completed("LicensesInCodeCheck") /\ Len(pkg.license_tags) > 0 =>
        /\ chk["LicensesInCodeCheck"].status =
            IF Len(CodeRec.files_with_uncovered_licenses) > 0 THEN FAILURE
            ELSE IF Len(CodeRec.files_with_unofficial_tag) > 0 THEN WARNING
            ELSE IF Len(CodeRec.files_not_matched_by_any_license_tag) > 0
                 THEN FAILURE
            ELSE SUCCESS
        /\ \A e \in CodeFiles :
            (\E c \in Range(e.v.expr) :
                /\ \A tag \in Declarations :
                        tag.id # c /\ tag.id_from_license_text # <<c>>)
            => /\ chk["LicensesInCodeCheck"].status = FAILURE
               /\ e.k \in Keys(CodeRec.files_with_uncovered_licenses)

----------------------------------------------------------------------------
\* Properties of LicenseFilesReferencedCheck

RefRec == rec["LicenseFilesReferencedCheck"]

\* the license texts the scan found inside the package directory
InsideTexts == {e \in Range(pkg.found_license_texts) : Head(e.k) # ".."}

\* the identifier recovered from a license text is a declared identifier
MatchesDeclaration(e) ==
    \E tag \in Declarations : e.v.expr = <<tag.id>>

\* the identifier recovered from a license text is the one recovered from the
\* text a declaration links
MatchesCorrespondence(e) ==
    \E tag \in Declarations : e.v.expr = tag.id_from_license_text

----------------------------------------------------------------------------
\* The declaration set of manifests with up to three tags whose source-files
\* patterns overlap

MaxTagsPartition == 3

SRC_GLOB == <<"src", "*">>

PartitionNames == {"MIT", "BSD", "GPL"}
PartitionGlobs == {<<>>, <<A_P>>, <<SRC_GLOB>>}

PartitionManifests ==
    UNION {[1..n -> [id : PartitionNames, file : {LICENSE_P},
                     src : PartitionGlobs]] : n \in 1..MaxTagsPartition}

PartitionWorlds ==
    {[manifest |-> m, xml |-> "ok", repo |-> REPO_ABS,
      scanignore |-> <<>>, walk |-> PkgWalk,
      files |-> DiskOf("ok", <<ScanText("MIT")>>, <<>>, NoneExpr)] :
        m \in PartitionManifests}

InitPartition ==
    /\ world \in PartitionWorlds
    /\ pkg = NewPackage
    /\ chk = NewChecks
    /\ rec = NewRecords
    /\ pc = "LicenseTagExistsCheck"
    /\ results = <<>>
    /\ uncaught = NoExc
    /\ returned = NotReturned
    /\ calls = <<>>
    /\ cache = <<>>

NextPartition ==
    \/ RunLicenseTagExistsCheck
    \/ RunLicenseTagIsInSpdxListCheck

SpecPartition == InitPartition /\ [][NextPartition]_vars

\* the declaration set has been built without a structural violation and
\* exactly one declaration has no source-files attribute
BuiltWithOneRemainder ==
    /\ chk["LicenseTagExistsCheck"].reason = "Found licenses"
    /\ Cardinality({tag \in Declarations : tag.source_files_str = <<<<"**">>>>}) = 1

\* the files the declarations own between them
OwnedFiles == UNION {tag.source_files : tag \in Declarations}

\* the declaration that owns the remainder
IsRemainderOwner(tag) == tag.source_files_str = <<<<"**">>>>

\* C7 as stated: with exactly one declaration without source-files, the owned
\* file sets of the declarations cover the files of the package and the sets
\* of any two distinct declarations are disjoint.
C7_Partition ==
    BuiltWithOneRemainder =>
        /\ OwnedFiles = PkgFiles(world)
        /\ \A t1, t2 \in Declarations :
            t1.id # t2.id => t1.source_files \cap t2.source_files = {}

\* C7 amended: with exactly one declaration without source-files, the owned
\* file sets together cover every file of the package that the pattern "**"
\* finds, and the set of the declaration without source-files is disjoint
\* from the set of every other declaration; two declarations with
\* source-files may own the same file.
C7_RemainderDisjoint ==
    BuiltWithOneRemainder =>
        /\ _eval_glob(<<"**">>, world) \subseteq OwnedFiles
        /\ \A t1, t2 \in Declarations :
            t1.id # t2.id /\ IsRemainderOwner(t1) =>
                t1.source_files \cap t2.source_files = {}

\* three declarations: the remainder owner and two with source-files, one of
\* which takes a file away from the remainder
C7_Witness ==
    /\ BuiltWithOneRemainder
    /\ Len(pkg.license_tags) = 3
    /\ \E t1, t2 \in Declarations :
        /\ IsRemainderOwner(t1) /\ ~IsRemainderOwner(t2)
        /\ t2.source_files # {}
        /\ t1.source_files # {}

----------------------------------------------------------------------------
\* Properties of the structural violations

\* the tag at position i of the manifest makes a declaration: no later tag
\* has its identifier
IsDeclaration(i) ==
    \A j \in (i + 1)..Len(world.manifest) :
        world.manifest[j].id # world.manifest[i].id

TagsWithoutSourceFiles ==
    {i \in 1..Len(world.manifest) : world.manifest[i].src = <<>>}
TagsWithoutFile ==
    {i \in 1..Len(world.manifest) : world.manifest[i].file = NOFILE}

DeclarationsWithoutSourceFiles == {i \in TagsWithoutSourceFiles : IsDeclaration(i)}
DeclarationsWithoutFile        == {i \in TagsWithoutFile : IsDeclaration(i)}

\* the first access to the declaration set reported the exception exc
Reported(exc) ==
    chk["LicenseTagExistsCheck"] = [status |-> FAILURE, reason |-> exc]

\* no declaration was made the owner of the remainder
NoRemainderOwnerChosen ==
    \A tag \in Declarations :
        tag.source_files_str = <<<<"**">>>> =>
            ~tag.has_source_files /\ tag.source_files = {}

\* no text file was inferred for a declaration without a file attribute
NoTextFileInferred ==
    \A i \in DeclarationsWithoutFile :
        \A tag \in Declarations :
            tag.id = world.manifest[i].id => tag.license_text_file = NOFILE

C10_NoExceptionLeavesCheck ==
    uncaught \notin {"FileNotFoundError", "ParseError", "XMLSyntaxError"}

----------------------------------------------------------------------------
\* Properties of the statuses of a package and of the run

\* m is the maximum severity of the statuses S
IsMaxSeverity(m, S) == m \in S /\ \A x \in S : x <= m

\* main has returned from print_results
Returned == returned # NotReturned

\* C11: the status recorded for a package is the maximum severity over the
\* verdicts of its checks, and the status print_results reports for the run
\* is the maximum severity over the package statuses (shown under the other
\* word only where a flag asks to treat it so).
C11_StatusIsMaxSeverity ==
    [][/\ Len(results') > Len(results) =>
            /\ Len(results') = Len(results) + 1
            /\ SubSeq(results', 1, Len(results)) = results
            /\ IsMaxSeverity(results'[Len(results')],
                             {chk[n].status : n \in CheckNames})
       /\ returned' # returned =>
            \E m \in Range(results) :
                /\ IsMaxSeverity(m, Range(results))
                /\ returned'.printed =
                        IF m = WARNING /\ returned'.args.warnings_as_error
                        THEN FAILURE
                        ELSE IF m = FAILURE /\ returned'.args.continue_on_error
                        THEN WARNING
                        ELSE m]_vars

\* a run of two packages, the first with a warning as its worst verdict, the
\* second with a failure, reported as FAILURE
C11_Witness ==
    /\ Returned
    /\ results = <<WARNING, FAILURE>>
    /\ returned.args = [continue_on_error |-> FALSE, warnings_as_error |-> FALSE]
    /\ returned.printed = FAILURE

\* C12: the exit code of a run with at least one package is EX_OK for the run
\* status SUCCESS; for WARNING it is EX_OK unless warnings_as_error is set,
\* then EX_DATAERR; for FAILURE it is EX_DATAERR unless continue_on_error is
\* set, then EX_OK.
C12_ExitCodeMapping ==
    Returned =>
        LET worst == CHOOSE m \in Range(results) : IsMaxSeverity(m, Range(results))
        IN  /\ worst = SUCCESS => returned.code = EX_OK
            /\ worst = WARNING =>
                    returned.code = IF returned.args.warnings_as_error
                                    THEN EX_DATAERR ELSE EX_OK
            /\ worst = FAILURE =>
                    returned.code = IF returned.args.continue_on_error
                                    THEN EX_OK ELSE EX_DATAERR

\* a failed run under both flags returns EX_OK
C12_Witness ==
    /\ Returned
    /\ FAILURE \in Range(results)
    /\ returned.args = [continue_on_error |-> TRUE, warnings_as_error |-> TRUE]
    /\ returned.code = EX_OK

----------------------------------------------------------------------------
\* Properties of the checks of the declared identifiers

\* the manifest makes Package.license_tags raise a structural violation
StructuralViolation ==
    \/ Cardinality(DeclarationsWithoutSourceFiles) >= 2
    \/ Cardinality(DeclarationsWithoutFile) >= 2

TagExists == chk["LicenseTagExistsCheck"]

----------------------------------------------------------------------------
\* A caller other than main that reads one Package: any sequence of accesses
\* to its properties and of calls of its scan, on packages whose repository
\* is the parent directory or the package directory itself

MaxCalls == 3

AccessManifests ==
    {<<>>,
     <<[id |-> "MIT", file |-> LICENSE_P, src |-> <<>>]>>,
     <<[id |-> "MIT", file |-> NOFILE, src |-> <<>>]>>,
     <<[id |-> "MIT", file |-> NOFILE, src |-> <<>>],
       [id |-> "BSD", file |-> NOFILE, src |-> <<>>]>>,
     <<[id |-> "BSD", file |-> LICENSE_P, src |-> <<A_P>>],
       [id |-> "MIT", file |-> REPOLIC_P, src |-> <<>>]>>,
     <<[id |-> "Apache-2.0", file |-> LICENSE_P, src |-> <<>>]>>,
     <<[id |-> "Apache License 2.0", file |-> LICENSE_P, src |-> <<>>]>>,
     <<[id |-> "MIT", file |-> LICENSE_P, src |-> <<A_P>>],
       [id |-> "MIT", file |-> NOFILE, src |-> <<>>]>>,
     <<[id |-> "MIT", file |-> LICENSE_P, src |-> <<>>],
       [id |-> NO_TEXT, file |-> NOFILE, src |-> <<>>],
       [id |-> "BSD", file |-> NOFILE, src |-> <<A_P>>]>>}

AccessWorlds ==
    {[manifest |-> m, xml |-> "ok", repo |-> r,
      scanignore |-> <<>>, walk |-> PkgWalk,
      files |-> DiskOf("ok", pl, rl, NoneExpr)] :
        m \in AccessManifests, r \in {REPO_ABS, PKG_ABS},
        pl \in Opt(PkgLicenseScans), rl \in Opt(RepoLicenseScans)}

\* the access op left the Package as p, gave the object numbered obj or
\* raised exc
Access(op, p, obj, exc) ==
    /\ pc = "caller"
    /\ Len(calls) < MaxCalls
    /\ pkg' = p
    /\ calls' = Append(calls, [op |-> op, obj |-> obj, exc |-> exc])
    /\ UNCHANGED <<world, chk, rec, pc, results, uncaught, returned, cache>>

AccessedScan(op, p) == Access(op, p, p.allocs, NoExc)
AccessedTags(t) == Access("license_tags", t.pkg, t.pkg.tags_allocs, t.exc)

AccessFoundFilesWLicenses ==
    AccessedScan("found_files_w_licenses", found_files_w_licenses(pkg, world))

AccessFoundLicenseTexts ==
    AccessedScan("found_license_texts", found_license_texts(pkg, world))

CallRunScanAndSaveResults ==
    AccessedScan("_run_scan_and_save_results",
                 _run_scan_and_save_results(pkg, world))

AccessLicenseTags == AccessedTags(license_tags(pkg, world))

InitAccess ==
    /\ world \in AccessWorlds
    /\ pkg = NewPackage
    /\ chk = NewChecks
    /\ rec = NewRecords
    /\ pc = "caller"
    /\ results = <<>>
    /\ uncaught = NoExc
    /\ returned = NotReturned
    /\ calls = <<>>
    /\ cache = <<>>

NextAccess ==
    \/ AccessFoundFilesWLicenses
    \/ AccessFoundLicenseTexts
    \/ CallRunScanAndSaveResults
    \/ AccessLicenseTags

SpecAccess == InitAccess /\ [][NextAccess]_vars

\* no element occurs twice in the sequence
NoDuplicates(seq) == Cardinality(Range(seq)) = Len(seq)

\* C17: whatever the sequence of accesses to found_files_w_licenses,
\* found_license_texts, license_tags and _run_scan_and_save_results on one
\* Package, the Package passes each file to the scanner at most once, makes
\* its dicts once, and every access gives the object the first access of
\* that name gave.
C17_ScansOnce ==
    /\ NoDuplicates(pkg.scan_log)
    /\ pkg.allocs <= 1
    /\ pkg.tags_allocs <= 1
    /\ pkg.scanned <=> pkg.allocs = 1
    /\ \A i, j \in 1..Len(calls) :
            calls[i].op = calls[j].op => calls[i].obj = calls[j].obj

\* the scan was called twice and its results were read after that
C17_Witness ==
    /\ Len(calls) = 3
    /\ calls[1].op = "_run_scan_and_save_results"
    /\ calls[2].op = "_run_scan_and_save_results"
    /\ calls[3].op = "found_license_texts"
    /\ Len(pkg.scan_log) = 3

\* the scan of the package being read has run
ScanHasRun == pkg.scanned

\* C18: after the scan no relative path is a key of both
\* found_files_w_licenses and found_license_texts, the license texts of the
\* repository root included, also when the repository root is the package
\* directory.
C18_MappingsDisjoint ==
    ScanHasRun =>
        Keys(pkg.found_files_w_licenses) \cap Keys(pkg.found_license_texts) = {}

\* the full names of licenses and their SPDX identifiers
FullNames ==
    [n \in {"Apache License 2.0", "MIT License"} |->
        IF n = "Apache License 2.0" THEN "Apache-2.0" ELSE "MIT"]

\* the identifier a name stands for: that of the license whose full name it
\* is, else the name itself
CanonicalIdentifier(name) ==
    IF name \in DOMAIN FullNames THEN FullNames[name] ELSE name

\* C19: the identifier of a LicenseTag built from the full name of a license
\* is the one of a LicenseTag built from its SPDX identifier; a canonical
\* identifier and a name that is not in the table are kept as they are.
C19_IdentifierNormalised ==
    pkg.tags_set =>
        {tag.id : tag \in Declarations} =
            {CanonicalIdentifier(world.manifest[i].id) :
                i \in 1..Len(world.manifest)}

----------------------------------------------------------------------------
\* A caller other than main that runs checks of its choice, in the order of
\* its choice, on one Package; the SPDX site cannot be reached and no
\* reference text is cached

OfflineSims(w) ==
    [id \in {w.manifest[i].id : i \in 1..Len(w.manifest)} |->
        [fetch |-> "fail", pct |-> 0]]

\* check.check(package) for the check of that name, not run before
RunAlone(name, out) ==
    /\ pc = "any order"
    /\ ~Completed(name)
    /\ pkg' = out.pkg
    /\ rec' = [rec EXCEPT ![name] = out.r]
    /\ IF out.exc = NoExc \/ Caught(out.exc)
       THEN /\ chk' = [chk EXCEPT ![name] = check(out)]
            /\ pc' = pc
            /\ uncaught' = uncaught
       ELSE /\ chk' = chk
            /\ pc' = "crashed"
            /\ uncaught' = out.exc
    /\ UNCHANGED <<world, results, returned, calls, cache>>

AloneSchemaCheck == RunAlone("SchemaCheck", SchemaCheck(pkg, world))

AloneLicenseTagExistsCheck ==
    RunAlone("LicenseTagExistsCheck", LicenseTagExistsCheck(pkg, world))

AloneLicenseTagIsInSpdxListCheck ==
    RunAlone("LicenseTagIsInSpdxListCheck",
             LicenseTagIsInSpdxListCheck(pkg, world))

AloneLicenseTextExistsCheck ==
    RunAlone("LicenseTextExistsCheck",
             LicenseTextExistsCheck(pkg, world, OfflineSims(world)))

AloneLicensesInCodeCheck ==
    RunAlone("LicensesInCodeCheck", LicensesInCodeCheck(pkg, world))

AloneLicenseFilesReferencedCheck ==
    RunAlone("LicenseFilesReferencedCheck",
             LicenseFilesReferencedCheck(pkg, world))

InitAnyOrder ==
    /\ world \in AccessWorlds
    /\ pkg = NewPackage
    /\ chk = NewChecks
    /\ rec = NewRecords
    /\ pc = "any order"
    /\ results = <<>>
    /\ uncaught = NoExc
    /\ returned = NotReturned
    /\ calls = <<>>
    /\ cache = <<>>

NextAnyOrder ==
    \/ AloneSchemaCheck
    \/ AloneLicenseTagExistsCheck
    \/ AloneLicenseTagIsInSpdxListCheck
    \/ AloneLicenseTextExistsCheck
    \/ AloneLicensesInCodeCheck
    \/ AloneLicenseFilesReferencedCheck

SpecAnyOrder == InitAnyOrder /\ [][NextAnyOrder]_vars

\* the Check object of that name after it checked a fresh Package of the
\* package w
CheckedFresh(name, w) ==
    check(CASE name = "SchemaCheck" -> SchemaCheck(NewPackage, w)
            [] name = "LicenseTagExistsCheck" ->
                    LicenseTagExistsCheck(NewPackage, w)
            [] name = "LicenseTagIsInSpdxListCheck" ->
                    LicenseTagIsInSpdxListCheck(NewPackage, w)
            [] name = "LicenseTextExistsCheck" ->
                    LicenseTextExistsCheck(NewPackage, w, OfflineSims(w))
            [] name = "LicensesInCodeCheck" ->
                    LicensesInCodeCheck(NewPackage, w)
            [] OTHER -> LicenseFilesReferencedCheck(NewPackage, w))

\* the same for the package being processed
OnFreshPackage(name) == CheckedFresh(name, world)

\* C20: the verdict of a check is the same whichever of the other checks ran
\* before it on the same Package and in whatever order: it is the verdict
\* the check gives on a fresh Package.
C20_VerdictIndependentOfOrder ==
    \A name \in CheckNames :
        Completed(name) => chk[name].status = OnFreshPackage(name).status

\* the identifiers LicenseTagIsInSpdxListCheck listed
ListedIdentifiers == rec["LicenseTagIsInSpdxListCheck"]

\* the declared identifiers that are not in the SPDX list
UnrecognisedIdentifiers ==
    {world.manifest[i].id : i \in 1..Len(world.manifest)} \ SpdxList

----------------------------------------------------------------------------
\* Properties of a package without a license declaration

\* the manifest of the package being processed can be read and has no
\* license tag
DeclaresNothing ==
    /\ world # NoWorld
    /\ world.xml \in {"ok", "v4", "badformat"}
    /\ Len(world.manifest) = 0

NoTagDefined == [status |-> FAILURE, reason |-> "No license tag defined."]

\* C15: for a package that declares zero licenses no check raises;
\* LicenseTagExistsCheck, LicenseTextExistsCheck and LicensesInCodeCheck
\* yield FAILURE, the latter two with no record collected and no file
\* scanned; LicenseTagIsInSpdxListCheck lists nothing;
\* LicenseFilesReferencedCheck yields FAILURE or SUCCESS; and the package
\* status is FAILURE.
C15_NoDeclarationFailsWithoutRaising ==
    DeclaresNothing =>
        /\ pc # "crashed"
        /\ \A n \in CheckNames \ {"SchemaCheck"} :
                chk[n].reason \notin PackageException \cup AssertionError
        /\ Completed("LicenseTagExistsCheck") => TagExists = NoTagDefined
        /\ Completed("LicenseTagIsInSpdxListCheck") =>
                /\ chk["LicenseTagIsInSpdxListCheck"].status = SUCCESS
                /\ ListedIdentifiers = <<>>
        /\ Completed("LicenseTextExistsCheck") =>
                /\ chk["LicenseTextExistsCheck"] = NoTagDefined
                /\ TextRec = NewTextRecords
        /\ Completed("LicensesInCodeCheck") =>
                /\ chk["LicensesInCodeCheck"] = NoTagDefined
                /\ CodeRec = NewCodeRecords
        /\ ~Completed("LicenseFilesReferencedCheck") => ~pkg.scanned
        /\ Completed("LicenseFilesReferencedCheck") =>
                /\ chk["LicenseFilesReferencedCheck"].status \in {SUCCESS, FAILURE}
                /\ RefRec.inofficial_covered_texts = <<>>
        /\ pc = "finished" => results[Len(results)] = FAILURE

\* every check of a package without a declaration has run, the last one
\* finding a license text no tag mentions
C15_Witness ==
    /\ DeclaresNothing
    /\ pc = "finished"
    /\ chk["LicenseFilesReferencedCheck"].status = FAILURE
    /\ chk["LicenseTagIsInSpdxListCheck"].status = SUCCESS
    /\ results[Len(results)] = FAILURE

----------------------------------------------------------------------------
\* Properties of the inference of the text file

\* the declaration set was built without a structural violation and a
\* declaration without a file attribute is in it
BuiltWithOneWithoutFile ==
    /\ TagExists.reason = "Found licenses"
    /\ Cardinality(DeclarationsWithoutFile) = 1

\* the declaration made from the tag at position i of the manifest
DeclarationOf(i) ==
    CHOOSE tag \in Declarations : tag.id = world.manifest[i].id

\* the detected license-text files, and those with the marker in their path
DetectedTexts == Keys(pkg.found_license_texts)
MarkedTexts == {f \in DetectedTexts : \E c \in Range(f) : c = "LICENSE"}

\* C16: the declaration without a file attribute is linked to the one
\* detected license-text file if there is exactly one, otherwise to a
\* detected license-text file whose path contains the marker LICENSE if there
\* is one, otherwise to none; declarations with a file attribute keep it.
C16_TextFileInference ==
    BuiltWithOneWithoutFile =>
        /\ \A i \in DeclarationsWithoutFile :
            LET linked == DeclarationOf(i).license_text_file
            IN  IF Cardinality(DetectedTexts) = 1 THEN linked \in DetectedTexts
                ELSE IF MarkedTexts # {} THEN linked \in MarkedTexts
                ELSE linked = NOFILE
        /\ \A i \in 1..Len(world.manifest) :
            IsDeclaration(i) /\ world.manifest[i].file # NOFILE =>
                DeclarationOf(i).license_text_file = world.manifest[i].file

----------------------------------------------------------------------------
\* Properties of repeated accesses to Package.license_tags

\* the accesses to license_tags among the calls made so far
TagAccesses == {i \in 1..Len(calls) : calls[i].op = "license_tags"}

\* the inference pass has run on the declaration set the Package holds: every
\* declaration has its owned files, and at most one is without a text file
InferencePassDone ==
    /\ \A tag \in Declarations : tag.has_source_files
    /\ Cardinality({tag \in Declarations : tag.license_text_file = NOFILE}) <= 1

\* C21: once an access to license_tags raised a structural violation, every
\* later access to license_tags on the same Package raises the same
\* exception, and an access that returns gives a declaration set on which
\* the inference pass has run.
C21_ViolationRaisedAgain ==
    /\ \A i, j \in TagAccesses :
            i < j /\ calls[i].exc \in PackageException =>
                calls[j].exc = calls[i].exc
    /\ \A i \in TagAccesses : calls[i].exc = NoExc => InferencePassDone

----------------------------------------------------------------------------
\* Properties of the lifecycle of a LicenseTag

\* the identifier, the owned files and the text file of each LicenseTag the
\* Package holds, in the order of the declaration set
TagFields ==
    [i \in 1..Len(pkg.license_tags) |->
        [key |-> pkg.license_tags[i].k,
         id |-> pkg.license_tags[i].v.id,
         has_source_files |-> pkg.license_tags[i].v.has_source_files,
         source_files |-> pkg.license_tags[i].v.source_files,
         license_text_file |-> pkg.license_tags[i].v.license_text_file]]

\* the manifest tag a LicenseTag was constructed from: the last one with its
\* identifier
ElementOf(f) ==
    world.manifest[CHOOSE i \in 1..Len(world.manifest) :
                        IsDeclaration(i) /\ world.manifest[i].id = f.key]

\* the LicenseTags whose owned files / text file are not the ones of their
\* construction
OwnedFilesAssigned ==
    {i \in DOMAIN TagFields :
        TagFields[i].has_source_files # (ElementOf(TagFields[i]).src # <<>>)}
TextFileAssigned ==
    {i \in DOMAIN TagFields :
        TagFields[i].license_text_file # ElementOf(TagFields[i]).file}

\* what the first access to the declaration set leaves: every LicenseTag has
\* the identifier of its manifest tag, and at most one had its owned files
\* and at most one its text file assigned
AsConstructedOrInferred ==
    /\ \A i \in DOMAIN TagFields :
        /\ TagFields[i].id = TagFields[i].key
        /\ \E j \in 1..Len(world.manifest) :
                world.manifest[j].id = TagFields[i].id
    /\ Cardinality(OwnedFilesAssigned) <= 1
    /\ Cardinality(TextFileAssigned) <= 1
    /\ \A i \in OwnedFilesAssigned : ElementOf(TagFields[i]).src = <<>>
    /\ \A i \in TextFileAssigned : ElementOf(TagFields[i]).file = NOFILE

----------------------------------------------------------------------------
\* Properties of the similarity comparison of LicenseTextExistsCheck

\* LicenseTextExistsCheck went through the declarations of the package being
\* processed: it ran to its end or an exception left its loop
TextExistsHasRun ==
    Completed("LicenseTextExistsCheck") \/ TextRec.exc # NoExc

\* a similarity of the linked text to the reference text of the declared
\* identifier is available and reaches the threshold
SimilarityReachesThreshold(tag) ==
    /\ tag.id \in Keys(TextRec.similarity_of_texts)
    /\ Get(TextRec.similarity_of_texts, tag.id) # <<>>
    /\ Get(TextRec.similarity_of_texts, tag.id)[1] >= SIMILARITY_THRESHOLD

\* C23: the similarity is computed only for a declaration that passed
\* conditions (a)-(d) and whose recovered identifier differs from the
\* declared one; such a declaration has nothing recorded if and only if a
\* similarity is available and is at least 90, otherwise it has outcome (e).
C23_SimilarityFallback ==
    TextExistsHasRun =>
        /\ \A id \in Keys(TextRec.similarity_of_texts) :
                \E tag \in Declarations : tag.id = id /\ RecoveredDiffers(tag)
        /\ \A tag \in Declarations :
                RecoveredDiffers(tag) =>
                    IF SimilarityReachesThreshold(tag)
                    THEN tag.id \notin Keys(TextRec.missing_license_texts_status)
                    ELSE MismatchOutcomeRecorded(tag)

\* C24: a failure to fetch the reference text, an exception of the request
\* as well as a response other than 200, makes compare_text_with_spdx_text
\* give no similarity; it never leaves LicenseTextExistsCheck, which ends
\* with a verdict, and never ends the run.
C24_FetchFailureDegrades ==
    /\ TextRec.exc = NoExc
    /\ uncaught # "ConnectionError"
    /\ \A id \in Keys(TextRec.similarity_of_texts) :
            Get(TextRec.similarity_of_texts, id) = <<>> =>
                /\ Completed("LicenseTextExistsCheck")
                /\ id \in Keys(TextRec.missing_license_texts_status)

----------------------------------------------------------------------------
\* The cache of reference texts: calls of
\* LicenseTextExistsCheck.compare_text_with_spdx_text, for tags and with
\* answers of the SPDX site of the caller's choice

MaxLookups == 3

\* what requests.get gives: it raises, answers without status 200, or answers
\* with the revision rev of the text the site has for the tag
SiteAnswers ==
    {[fetch |-> "raise", rev |-> 0], [fetch |-> "fail", rev |-> 0],
     [fetch |-> "ok", rev |-> 1], [fetch |-> "ok", rev |-> 2]}

\* parsed_response["licenseText"]
licenseText(tag, answer) == [of |-> tag, rev |-> answer.rev]

\* os.path.join(cache_dir, f"license_{tag}.txt"), relative to cache_dir
license_file(tag) == <<"license_" \o tag \o ".txt">>

\* a variant of license_file that keeps one file for all tags
OneLicenseFile(tag) == <<"license.txt">>

\* compare_text_with_spdx_text up to the comparison: the cache afterwards,
\* whether the site was asked, original_text (<<>> when there is none) and
\* the exception raised; f is the path of the cache file
ReferenceTextAt(f, tag, files, answer) ==
    IF f \notin Keys(files)
    THEN IF answer.fetch = "raise"
         THEN [cache |-> files, requested |-> TRUE, original_text |-> <<>>,
               exc |-> "ConnectionError"]
         ELSE IF answer.fetch = "ok"
         THEN [cache |-> Put(files, f, licenseText(tag, answer)),
               requested |-> TRUE,
               original_text |-> <<licenseText(tag, answer)>>,
               exc |-> NoExc]
         ELSE [cache |-> files, requested |-> TRUE, original_text |-> <<>>,
               exc |-> NoExc]
    ELSE [cache |-> files, requested |-> FALSE,
          original_text |-> <<Get(files, f)>>, exc |-> NoExc]

\* a variant of the operation below that keeps the texts of all tags in one
\* file
ReferenceTextInOneFile(tag, files, answer) ==
    ReferenceTextAt(OneLicenseFile(tag), tag, files, answer)

\* compare_text_with_spdx_text up to the comparison, for the tag
ReferenceText(tag, files, answer) ==
    ReferenceTextAt(license_file(tag), tag, files, answer)

\* the call compare_text_with_spdx_text(tag, found_lic_text) obtained the
\* reference text as r says; pct is the similarity of the two texts
Compared(tag, r, pct) ==
    /\ pc = "lookup"
    /\ Len(calls) < MaxLookups
    /\ cache' = r.cache
    /\ calls' = Append(calls,
            [tag |-> tag, requested |-> r.requested,
             original_text |-> r.original_text, exc |-> r.exc,
             similarity |->
                compare_text_with_spdx_text(
                    [fetch |-> IF r.original_text = <<>> THEN "fail" ELSE "ok",
                     pct |-> pct])])
    /\ UNCHANGED <<world, pkg, chk, rec, pc, results, uncaught, returned>>

CompareTextWithSpdxText ==
    \E tag \in TagNames, answer \in SiteAnswers,
       pct \in {SIMILARITY_THRESHOLD - 1, SIMILARITY_THRESHOLD} :
        Compared(tag, ReferenceText(tag, cache, answer), pct)

InitCache ==
    /\ world = NoWorld
    /\ pkg = NewPackage
    /\ chk = NewChecks
    /\ rec = NewRecords
    /\ pc = "lookup"
    /\ results = <<>>
    /\ uncaught = NoExc
    /\ returned = NotReturned
    /\ calls = <<>>
    /\ cache = <<>>

NextCache == CompareTextWithSpdxText

SpecCache == InitCache /\ [][NextCache]_vars

\* the call numbered i fetched the reference text from the site
FetchedText(i) == calls[i].requested /\ calls[i].original_text # <<>>

\* the calls for the tag of call i before it that fetched the text
EarlierFetches(i) ==
    {h \in 1..(i - 1) : calls[h].tag = calls[i].tag /\ FetchedText(h)}

\* C25: the cache has one entry per identifier whose reference text was
\* fetched, holding the text of the first fetch; every later lookup for the
\* identifier gives that text without asking the site; a failed fetch writes
\* nothing, and no lookup reads or overwrites the entry of another
\* identifier.
C25_CacheKeyedByIdentifier ==
    /\ Keys(cache) =
            {license_file(calls[i].tag) : i \in {h \in 1..Len(calls) : FetchedText(h)}}
    /\ \A i \in 1..Len(calls) :
        /\ EarlierFetches(i) = {}
            => /\ calls[i].requested
               /\ FetchedText(i) =>
                    Get(cache, license_file(calls[i].tag)) =
                        calls[i].original_text[1]
        /\ \A h \in EarlierFetches(i) :
            /\ ~calls[i].requested
            /\ calls[i].original_text = calls[h].original_text
        /\ \A t \in Range(calls[i].original_text) : t.of = calls[i].tag

\* a fetch for one identifier, a failed fetch for another and then a lookup
\* for the first one
C25_Witness ==
    /\ Len(calls) = 3
    /\ FetchedText(1)
    /\ calls[2].tag # calls[1].tag /\ calls[2].original_text = <<>>
    /\ calls[3].tag = calls[1].tag /\ ~calls[3].requested
    /\ calls[3].similarity # <<>>

----------------------------------------------------------------------------
\* Packages with a file .scanignore, read by a caller as above

MaxIgnoreLines == 2

\* lines of .scanignore: a directory, a file with a comment, a comment only,
\* a built-in pattern, every file
ScanIgnoreLines ==
    {[text |-> <<"src", "*">>, comment |-> FALSE],
     [text |-> B_P, comment |-> TRUE],
     [text |-> <<>>, comment |-> TRUE],
     [text |-> XML_P, comment |-> FALSE],
     [text |-> <<"*">>, comment |-> FALSE]}

IgnoreWorlds ==
    {[manifest |-> <<[id |-> "MIT", file |-> LICENSE_P, src |-> <<>>]>>,
      xml |-> "ok", repo |-> r, scanignore |-> lines,
      walk |-> PkgWalk,
      files |-> DiskOf("ok", <<ScanText("MIT")>>, <<>>, <<"MIT">>)] :
        r \in {REPO_ABS, PKG_ABS},
        lines \in UNION {[1..n -> ScanIgnoreLines] : n \in 0..MaxIgnoreLines}}

InitIgnore ==
    /\ world \in IgnoreWorlds
    /\ pkg = NewPackage
    /\ chk = NewChecks
    /\ rec = NewRecords
    /\ pc = "caller"
    /\ results = <<>>
    /\ uncaught = NoExc
    /\ returned = NotReturned
    /\ calls = <<>>
    /\ cache = <<>>

SpecIgnore == InitIgnore /\ [][NextAccess]_vars

\* the relative path matches a built-in pattern or a pattern of a line of
\* .scanignore
MatchesIgnorePattern(f) ==
    \/ f \in {<<"CHANGELOG.rst">>, <<".scanignore">>, <<"package.xml">>,
              <<"setup.py">>, <<"setup.cfg">>, <<"CMakeLists.txt">>}
    \/ Len(f) >= 2 /\ Head(f) = ".git"
    \/ \E i \in 1..Len(world.scanignore) :
        /\ world.scanignore[i].text # <<>>
        /\ FnMatch(f, world.scanignore[i].text)

\* C26: no file whose relative path matches an ignore pattern, built-in or
\* of .scanignore, is a key of found_files_w_licenses or was passed to the
\* scanner by the walk of the package, whatever .scanignore contains.
C26_IgnoredFilesNotScanned ==
    \A f \in Keys(pkg.found_files_w_licenses) \cup Range(pkg.scan_log) :
        ~MatchesIgnorePattern(f)

\* the scan has run on a package whose .scanignore names one of its two
\* source files; the other one was scanned
C26_Witness ==
    /\ pkg.scanned
    /\ \E i \in 1..Len(world.scanignore) : world.scanignore[i].text = B_P
    /\ Keys(pkg.found_files_w_licenses) = {A_P}
    /\ LICENSE_P \in Range(pkg.scan_log)

----------------------------------------------------------------------------
\* Properties of the keys of the declaration set

\* the identifiers of the license tags of the manifest
DeclaredIdentifiers ==
    {world.manifest[i].id : i \in 1..Len(world.manifest)} \ {NO_TEXT}

\* C27: the declaration set a Package holds has exactly one entry per
\* distinct identifier of a license tag of the manifest, under that
\* identifier, and is empty if and only if the manifest has no license tag.
C27_OneEntryPerIdentifier ==
    pkg.tags_set =>
        /\ Keys(pkg.license_tags) = DeclaredIdentifiers
        /\ Len(pkg.license_tags) = Cardinality(DeclaredIdentifiers)
        /\ \A i \in 1..Len(pkg.license_tags) :
                pkg.license_tags[i].v.id = pkg.license_tags[i].k
        /\ pkg.license_tags = <<>> <=> world.manifest = <<>>

----------------------------------------------------------------------------
\* Properties of the exit code across run statuses

\* the run that returned had the status FAILURE
FailedRun == Returned /\ SeqMax(results) = FAILURE

\* the exit code of a run of status WARNING under the flags of the run that
\* returned
WarningExitCode == print_results(<<WARNING>>, returned.args).code

\* C28 as stated: under any flags, when a run of status WARNING exits with
\* EX_DATAERR, a run of status FAILURE under the same flags exits with
\* EX_DATAERR too.
C28_ExitCodeMonotone ==
    FailedRun /\ WarningExitCode = EX_DATAERR => returned.code = EX_DATAERR

\* C28 amended: under flags without continue_on_error, when a run of status
\* WARNING exits with EX_DATAERR, a run of status FAILURE exits with
\* EX_DATAERR too; under continue_on_error together with warnings_as_error a
\* run of status WARNING exits with EX_DATAERR and a run of status FAILURE
\* with EX_OK.
C28_ExitCodeMonotoneWithoutContinueOnError ==
    FailedRun =>
        IF returned.args.continue_on_error
        THEN returned.args.warnings_as_error =>
                WarningExitCode = EX_DATAERR /\ returned.code = EX_OK
        ELSE WarningExitCode = EX_DATAERR => returned.code = EX_DATAERR

\* a failed run under warnings_as_error alone, where a run with warnings
\* exits with EX_DATAERR as well
C28_Witness ==
    /\ FailedRun
    /\ returned.args = [continue_on_error |-> FALSE, warnings_as_error |-> TRUE]
    /\ WarningExitCode = EX_DATAERR
    /\ returned.code = EX_DATAERR

----------------------------------------------------------------------------
\* Properties of the failures of LicensesInCodeCheck

\* C29: for a package with at least one declaration LicensesInCodeCheck ends
\* in FAILURE only with an uncovered-license record or a not-attributed
\* record; a declaration without a linked or inferred text file does not by
\* itself make it fail.
C29_FailureOnlyWithRecords ==
    /\ Completed("LicensesInCodeCheck")
    /\ Len(pkg.license_tags) > 0
    /\ chk["LicensesInCodeCheck"].status = FAILURE
    => \/ Len(CodeRec.files_with_uncovered_licenses) > 0
       \/ Len(CodeRec.files_not_matched_by_any_license_tag) > 0

----------------------------------------------------------------------------
\* Packages with two license texts in their top directory, enumerated by
\* os.walk in any order, checked as above

\* the orders in which os.walk can give the files: the top directory first,
\* the files of a directory in any order
WalkOrders ==
    {<<top[1], top[2], top[3], src[1], src[2]>> :
        top \in {t \in [1..3 -> {XML_P, LICENSE_P, LICBSD_P}] :
                    \A i, j \in 1..3 : i # j => t[i] # t[j]},
        src \in {<<A_P, B_P>>, <<B_P, A_P>>}}

WalkManifests ==
    {<<[id |-> "MIT", file |-> NOFILE, src |-> <<>>]>>,
     <<[id |-> "MIT", file |-> LICENSE_P, src |-> <<>>]>>,
     <<[id |-> "BSD-3-Clause", file |-> NOFILE, src |-> <<A_P>>],
       [id |-> "MIT", file |-> LICENSE_P, src |-> <<>>]>>}

WalkWorlds ==
    {[manifest |-> m, xml |-> "ok", repo |-> REPO_ABS, scanignore |-> <<>>,
      walk |-> order,
      files |-> (PKG_ABS \o LICBSD_P :> ScanText("BSD-3-Clause"))
                @@ DiskOf("ok", <<ScanText("MIT")>>, <<>>, NoneExpr)] :
        m \in WalkManifests, order \in WalkOrders}

InitWalk ==
    /\ world \in WalkWorlds
    /\ pkg = NewPackage
    /\ chk = NewChecks
    /\ rec = NewRecords
    /\ pc = "any order"
    /\ results = <<>>
    /\ uncaught = NoExc
    /\ returned = NotReturned
    /\ calls = <<>>
    /\ cache = <<>>

SpecWalk == InitWalk /\ [][NextAnyOrder]_vars

\* the package being processed, its files enumerated in another order
Reordered == {[world EXCEPT !.walk = order] : order \in WalkOrders}

\* the text file of each declaration of a fresh Package of the package w
TextFilesOf(w) ==
    LET tags == license_tags(NewPackage, w).pkg.license_tags
    IN  {<<tags[i].k, tags[i].v.license_text_file>> : i \in 1..Len(tags)}

\* C30: for a fixed manifest, fixed files and fixed scanner answers, the text
\* file inferred for the declaration without a file attribute and the
\* verdict of every check are the same in whatever order os.walk enumerates
\* the files of the package.
C30_IndependentOfWalkOrder ==
    \A w \in Reordered :
        /\ pkg.tags_set =>
            {<<tag.id, tag.license_text_file>> : tag \in Declarations} =
                TextFilesOf(w)
        /\ \A name \in CheckNames :
            Completed(name) => chk[name].status = CheckedFresh(name, w).status

====
